---- MODULE Spec2Model ----
(***************************************************************************)
(* Call-notify push delivery of veil-backend: the push_registrations       *)
(* table, the APNs and FCM client adapters and the call_notify handler,    *)
(* as a state machine of coroutines interleaving on one event loop.        *)
(***************************************************************************)
EXTENDS Integers, Sequences, FiniteSets, TLC

VARIABLES
    registry,        \* the push_registrations table: a set of rows
    now,             \* logical clock behind NOW()
    apnsEnv,         \* state of APNS_KEY_PATH / APNS_KEY_ID / APNS_TEAM_ID and the key file
    fcmEnv,          \* state of FCM_SERVICE_ACCOUNT_PATH and the credential file
    apnsClient,      \* apns._client is not None
    apnsBuilt,       \* how many APNs(...) objects were constructed
    fcmInitialized,  \* fcm._initialized
    fcmApp,          \* fcm._app is not None
    fcmBuilt,        \* how many times firebase_admin.initialize_app succeeded
    logged,          \* how many lines of each kind the two adapters have logged
    loopHolder,      \* the request running a synchronous provider call (0: none)
    pc,              \* per call-notify request: where the coroutine stands
    body,            \* per request: the CallNotifyRequest
    rows,            \* per request: the rows fetched
    idx,             \* per request: position of the for-loop over rows
    sent,            \* per request: sent
    bad_tokens,      \* per request: bad_tokens
    cidx,            \* per request: position of the cleanup loop
    resp,            \* per request: the HTTP response
    events,          \* per request: what happened at the provider for each row
    pushes,          \* per request: the provider requests built and handed to a provider
    deleted,         \* per request: the keys of the DELETE statements it executed
    envResp,         \* status code of the last register / deregister / delete-account request
    subscriber,      \* the subscriber table: usernames with a SIP credential
    users,           \* the users table of the XMPP server: usernames
    reqLog           \* the register / deregister / delete-account requests that ran their statements

vars == <<registry, now, apnsEnv, fcmEnv, apnsClient, apnsBuilt, fcmInitialized,
          fcmApp, fcmBuilt, logged, loopHolder, pc, body, rows, idx, sent, bad_tokens,
          cidx, resp, events, pushes, deleted, envResp, subscriber, users, reqLog>>

provVars == <<apnsClient, apnsBuilt, fcmInitialized, fcmApp, fcmBuilt, logged>>
envVars  == <<apnsEnv, fcmEnv>>
acctVars == <<subscriber, users, reqLog>>

----------------------------------------------------------------------------
(* Bounds of the model *)

NumDispatch == 2
MaxDevices == 2
MaxClock == 2

Dispatchers == 1..NumDispatch
Devices == 1..MaxDevices

XMPP_DOMAIN == "example.com"
APP_ID == "com.example.veil"

Usernames == {"bob", "carol"}
Jid(username) == username \o "@" \o XMPP_DOMAIN
Jids == {Jid(u) : u \in Usernames}
Platforms == {"ios", "android"}
Tokens == {"tokA", "tokB"}

----------------------------------------------------------------------------
(* Device registry: the push_registrations table *)

Key(row) == <<row.jid, row.device_uuid>>

Matching(table, jid, device_uuid) ==
    {r \in table : r.jid = jid /\ r.device_uuid = device_uuid}

\* a plain INSERT into a table without the unique key
Upsert_InsertOnly(table, jid, device_uuid, platform, push_token, app_id, at) ==
    table \cup {[jid |-> jid, device_uuid |-> device_uuid, platform |-> platform,
                 push_token |-> push_token, app_id |-> app_id, registered_at |-> at]}

Upsert(table, jid, device_uuid, platform, push_token, app_id, at) ==
    (table \ Matching(table, jid, device_uuid))
        \cup {[jid |-> jid, device_uuid |-> device_uuid, platform |-> platform,
               push_token |-> push_token, app_id |-> app_id, registered_at |-> at]}

\* a delete that keeps the row and blanks its token
DeleteRow_BlankToken(table, jid, device_uuid) ==
    {IF r.jid = jid /\ r.device_uuid = device_uuid THEN [r EXCEPT !.push_token = ""] ELSE r
        : r \in table}

DeleteRow(table, jid, device_uuid) == table \ Matching(table, jid, device_uuid)

\* a status tag that never reports zero rows
DeleteTag_AlwaysOne(table, jid, device_uuid) == "DELETE 1"

DeleteTag(table, jid, device_uuid) ==
    IF Matching(table, jid, device_uuid) = {} THEN "DELETE 0" ELSE "DELETE 1"

\* a SELECT that lost its WHERE clause
SelectByJid_NoWhere(table, jid) ==
    {[device_uuid |-> r.device_uuid, platform |-> r.platform, push_token |-> r.push_token]
        : r \in table}

SelectByJid(table, jid) ==
    {[device_uuid |-> r.device_uuid, platform |-> r.platform, push_token |-> r.push_token]
        : r \in {q \in table : q.jid = jid}}

\* every order in which the SELECT (no ORDER BY) may return the rows
RowOrders(S) ==
    {s \in [1..Cardinality(S) -> S] : \A i, j \in 1..Cardinality(S) : i # j => s[i] # s[j]}

UniqueKeys(table) == \A r, q \in table : Key(r) = Key(q) => r = q

----------------------------------------------------------------------------
(* The request model *)

CallTypePattern == {"audio", "video"}

\* the fields of CallNotifyRequest that have a default, filled in when the
\* request leaves them out
WithDefaults(b) ==
    [b EXCEPT !.caller_display_name = IF @ = "<missing>" THEN "" ELSE @,
              !.call_type = IF @ = "<missing>" THEN "audio" ELSE @]

\* a model that checks the required fields and not the pattern of call_type
ValidCallNotify_NoPattern(b) ==
    /\ b.callee_username # "<missing>"
    /\ b.caller_username # "<missing>"
    /\ b.call_id # "<missing>"

ValidCallNotify(b) ==
    /\ b.callee_username # "<missing>"
    /\ b.caller_username # "<missing>"
    /\ b.call_id # "<missing>"
    /\ WithDefaults(b).call_type \in CallTypePattern

NoBody == [callee_username |-> "", caller_username |-> "", caller_display_name |-> "",
           call_id |-> "", call_type |-> ""]

\* the response of a request; `error` names the exception that left the handler
NoResp == [code |-> 0, status |-> "", sent |-> 0, error |-> ""]
\* an exception swallowed into the answer for an empty result
ServerError_AsNoRegistrations(exc) ==
    [code |-> 200, status |-> "no_registrations", sent |-> 0, error |-> ""]

ServerError(exc) == [code |-> 500, status |-> "error", sent |-> 0, error |-> exc]
ValidationError ==
    [code |-> 422, status |-> "error", sent |-> 0, error |-> "RequestValidationError"]

CalleeJid(b) == Jid(b.callee_username)

\* the display name always taken from caller_username
CallerDisplay_Username(b) == b.caller_username

CallerDisplay(b) ==
    IF b.caller_display_name # "" THEN b.caller_display_name ELSE b.caller_username

----------------------------------------------------------------------------
(* Platform push clients *)

ApnsEnvStates == {"missing_env", "no_key_file", "ok"}
FcmEnvStates == {"missing_path", "bad_credential", "ok"}

\* descriptions for which apns.is_bad_token_error answers True
ApnsBadTokenDescriptions == {"BadDeviceToken", "Unregistered", "ExpiredToken"}
\* exception classes for which fcm.is_bad_token_error answers True
FcmBadTokenErrors == {"UnregisteredError", "InvalidArgumentError"}

\* what client.send_notification can do: accept, answer unsuccessfully with a
\* description, raise aioapns.ConnectionError, raise another exception
ApnsEvents == {"accepted", "BadDeviceToken", "TooManyRequests", "ConnectionError",
               "MaxAttemptsExceeded"}
ApnsRaisedOther == {"MaxAttemptsExceeded"}

\* what messaging.send can do: accept, or raise one of the SDK's exceptions
FcmEvents == {"accepted", "UnregisteredError", "InvalidArgumentError", "UnavailableError"}

\* the kinds of log line about a provider that is not configured: the warning
\* of _get_client / _ensure_initialized and the info line of the send function
LogKinds == {"apns_warning", "apns_skipping", "fcm_warning", "fcm_skipping"}

Bump(log, kind) == [log EXCEPT ![kind] = @ + 1]

\* the log after send_voip_push has called _get_client and looked at its result
LoggedAfterApns(log, client, env) ==
    IF client \/ env = "ok" THEN log
    ELSE Bump(Bump(log, "apns_warning"), "apns_skipping")

\* the log after send_call_push has called _ensure_initialized and looked at
\* its result
LoggedAfterFcm(log, initialized, app, env) ==
    IF initialized
    THEN IF app THEN log ELSE Bump(log, "fcm_skipping")
    ELSE IF env = "ok" THEN log
         ELSE Bump(Bump(log, "fcm_warning"), "fcm_skipping")

\* a _get_client that builds a client and never stores it in the holder
ApnsClientAfter_NotStored(client, env) == client

\* apns._get_client: is the holder set once the call has returned
ApnsClientAfter(client, env) == client \/ env = "ok"

\* apns._get_client: is a client returned from this state of the holder and environment
ApnsClientReady(client, env) == client \/ env = "ok"

\* fcm._ensure_initialized: its return value
FcmReady(initialized, app, env) == IF initialized THEN app ELSE env = "ok"

ApnsRequest(device_token, caller_name, call_id, call_type) ==
    [device_token |-> device_token,
     message |-> [caller_name |-> caller_name, call_id |-> call_id, call_type |-> call_type],
     push_type |-> "voip"]

\* a data payload that also carries the device token
FcmMessage_TokenInData(device_token, caller_name, call_id, call_type) ==
    [token |-> device_token,
     data |-> [type |-> "call", caller_name |-> caller_name, call_id |-> call_id,
               call_type |-> call_type, device_token |-> device_token],
     android |-> [priority |-> "high", ttl |-> 60]]

FcmMessage(device_token, caller_name, call_id, call_type) ==
    [token |-> device_token,
     data |-> [type |-> "call", caller_name |-> caller_name, call_id |-> call_id,
               call_type |-> call_type],
     android |-> [priority |-> "high", ttl |-> 60]]

\* the return value of send_voip_push once the client is there: "True", "False",
\* or "Raise" when the exception leaves the function
ApnsSendResult(ev) ==
    IF ev = "accepted" THEN "True"
    ELSE IF ev = "ConnectionError" THEN "False"
    ELSE IF ev \in ApnsRaisedOther THEN "Raise"
    ELSE "False"

\* the return value of send_call_push once the SDK is initialized
FcmSendResult(ev) ==
    IF ev = "accepted" THEN "True"
    ELSE IF ev = "UnregisteredError" THEN "False"
    ELSE IF ev = "InvalidArgumentError" THEN "False"
    ELSE "False"

----------------------------------------------------------------------------
(* call_notify *)

\* `if result is not None` in place of `if result is True`
SentAfter_NotNone(s, result) == IF result # "None" THEN s + 1 ELSE s

SentAfter(s, result) == IF result = "True" THEN s + 1 ELSE s

\* `if not result` in place of `elif result is False`
BadAfter_Falsy(bad, result, key) == IF result # "True" THEN Append(bad, key) ELSE bad

BadAfter(bad, result, key) == IF result = "False" THEN Append(bad, key) ELSE bad

\* a summary that answers no_registrations whenever nothing was delivered
SentResponse_EmptyWhenZero(s) ==
    IF s = 0 THEN [code |-> 200, status |-> "no_registrations", sent |-> 0, error |-> ""]
    ELSE [code |-> 200, status |-> "sent", sent |-> s, error |-> ""]

SentResponse(s) == [code |-> 200, status |-> "sent", sent |-> s, error |-> ""]
NoRegistrations == [code |-> 200, status |-> "no_registrations", sent |-> 0, error |-> ""]

DbResults == {"ok", "error"}

\* the body of the for-loop after the send returned `result` for the current row,
\* up to the next suspension point
HandleResult(d, result, ev) ==
    LET row == rows[d][idx[d]]
        s == SentAfter(sent[d], result)
        bad == BadAfter(bad_tokens[d], result, <<CalleeJid(body[d]), row.device_uuid>>)
        last == idx[d] = Len(rows[d])
    IN  /\ events' = [events EXCEPT ![d] = Append(@, ev)]
        /\ sent' = [sent EXCEPT ![d] = s]
        /\ bad_tokens' = [bad_tokens EXCEPT ![d] = bad]
        /\ idx' = [idx EXCEPT ![d] = @ + 1]
        /\ pc' = [pc EXCEPT ![d] = IF ~last THEN "loop"
                                   ELSE IF bad # <<>> THEN "cleanup" ELSE "done"]
        /\ resp' = [resp EXCEPT ![d] = IF last /\ bad = <<>> THEN SentResponse(s) ELSE @]

Receive(d, b) ==
    /\ loopHolder = 0
    /\ pc[d] = "idle"
    /\ body' = [body EXCEPT ![d] = IF ValidCallNotify(b) THEN WithDefaults(b) ELSE b]
    /\ IF ValidCallNotify(b)
       THEN /\ pc' = [pc EXCEPT ![d] = "fetch"]
            /\ UNCHANGED resp
       ELSE /\ pc' = [pc EXCEPT ![d] = "done"]
            /\ resp' = [resp EXCEPT ![d] = ValidationError]
    /\ UNCHANGED <<registry, now, envVars, provVars, loopHolder, rows, idx, sent,
                   bad_tokens, cidx, events, pushes, deleted, envResp, acctVars>>

Fetch(d) ==
    /\ loopHolder = 0
    /\ pc[d] = "fetch"
    /\ \E db \in DbResults :
          IF db = "error"
          THEN /\ pc' = [pc EXCEPT ![d] = "done"]
               /\ resp' = [resp EXCEPT ![d] = ServerError("PostgresError")]
               /\ UNCHANGED <<rows, idx>>
          ELSE LET S == SelectByJid(registry, CalleeJid(body[d]))
               IN  IF S = {}
                   THEN /\ pc' = [pc EXCEPT ![d] = "done"]
                        /\ resp' = [resp EXCEPT ![d] = NoRegistrations]
                        /\ UNCHANGED <<rows, idx>>
                   ELSE /\ \E order \in RowOrders(S) : rows' = [rows EXCEPT ![d] = order]
                        /\ idx' = [idx EXCEPT ![d] = 1]
                        /\ pc' = [pc EXCEPT ![d] = "loop"]
                        /\ UNCHANGED resp
    /\ UNCHANGED <<registry, now, envVars, provVars, loopHolder, body, sent,
                   bad_tokens, cidx, events, pushes, deleted, envResp, acctVars>>

\* one iteration of the loop up to the provider call: send_voip_push up to its
\* await, or send_call_push up to messaging.send
SendStart(d) ==
    /\ loopHolder = 0
    /\ pc[d] = "loop"
    /\ LET row == rows[d][idx[d]]
           name == CallerDisplay(body[d])
       IN  IF row.platform = "ios"
           THEN /\ apnsClient' = ApnsClientAfter(apnsClient, apnsEnv)
                /\ apnsBuilt' = IF ~apnsClient /\ apnsEnv = "ok" THEN apnsBuilt + 1
                                ELSE apnsBuilt
                /\ logged' = LoggedAfterApns(logged, apnsClient, apnsEnv)
                /\ UNCHANGED <<fcmInitialized, fcmApp, fcmBuilt, loopHolder>>
                /\ IF ApnsClientReady(apnsClient, apnsEnv)
                   THEN /\ pushes' = [pushes EXCEPT ![d] = @ \cup
                              {ApnsRequest(row.push_token, name, body[d].call_id,
                                           body[d].call_type)}]
                        /\ pc' = [pc EXCEPT ![d] = "apns_wait"]
                        /\ UNCHANGED <<idx, sent, bad_tokens, resp, events>>
                   ELSE /\ HandleResult(d, "None", "not_configured")
                        /\ UNCHANGED pushes
           ELSE /\ fcmInitialized' = TRUE
                /\ fcmApp' = IF fcmInitialized THEN fcmApp ELSE fcmEnv = "ok"
                /\ fcmBuilt' = IF ~fcmInitialized /\ fcmEnv = "ok" THEN fcmBuilt + 1
                               ELSE fcmBuilt
                /\ logged' = LoggedAfterFcm(logged, fcmInitialized, fcmApp, fcmEnv)
                /\ UNCHANGED <<apnsClient, apnsBuilt>>
                /\ IF FcmReady(fcmInitialized, fcmApp, fcmEnv)
                   THEN /\ pushes' = [pushes EXCEPT ![d] = @ \cup
                              {FcmMessage(row.push_token, name, body[d].call_id,
                                          body[d].call_type)}]
                        /\ pc' = [pc EXCEPT ![d] = "fcm_call"]
                        /\ loopHolder' = d
                        /\ UNCHANGED <<idx, sent, bad_tokens, resp, events>>
                   ELSE /\ HandleResult(d, "None", "not_configured")
                        /\ UNCHANGED <<pushes, loopHolder>>
    /\ UNCHANGED <<registry, now, envVars, body, rows, cidx, deleted, envResp, acctVars>>

\* client.send_notification returns or raises, and the loop body runs on
ApnsComplete(d) ==
    /\ loopHolder = 0
    /\ pc[d] = "apns_wait"
    /\ \E ev \in ApnsEvents :
          IF ApnsSendResult(ev) = "Raise"
          THEN /\ events' = [events EXCEPT ![d] = Append(@, ev)]
               /\ pc' = [pc EXCEPT ![d] = "done"]
               /\ resp' = [resp EXCEPT ![d] = ServerError(ev)]
               /\ UNCHANGED <<idx, sent, bad_tokens>>
          ELSE HandleResult(d, ApnsSendResult(ev), ev)
    /\ UNCHANGED <<registry, now, envVars, provVars, loopHolder, body, rows, cidx,
                   pushes, deleted, envResp, acctVars>>

\* messaging.send returns or raises; nothing else ran on the loop meanwhile
FcmComplete(d) ==
    /\ loopHolder = d
    /\ pc[d] = "fcm_call"
    /\ \E ev \in FcmEvents : HandleResult(d, FcmSendResult(ev), ev)
    /\ loopHolder' = 0
    /\ UNCHANGED <<registry, now, envVars, provVars, body, rows, cidx, pushes,
                   deleted, envResp, acctVars>>

CleanupAcquire(d) ==
    /\ loopHolder = 0
    /\ pc[d] = "cleanup"
    /\ \E db \in DbResults :
          IF db = "error"
          THEN /\ pc' = [pc EXCEPT ![d] = "done"]
               /\ resp' = [resp EXCEPT ![d] = ServerError("PostgresError")]
               /\ UNCHANGED cidx
          ELSE /\ pc' = [pc EXCEPT ![d] = "deleting"]
               /\ cidx' = [cidx EXCEPT ![d] = 1]
               /\ UNCHANGED resp
    /\ UNCHANGED <<registry, now, envVars, provVars, loopHolder, body, rows, idx,
                   sent, bad_tokens, events, pushes, deleted, envResp, acctVars>>

\* a cleanup that treats "DELETE 0" as deregister_push does: the absent row is
\* an error
CleanupDelete_RaiseOnAbsent(d) ==
    /\ loopHolder = 0
    /\ pc[d] = "deleting"
    /\ \E db \in DbResults :
          LET key == bad_tokens[d][cidx[d]]
              last == cidx[d] = Len(bad_tokens[d])
          IN  IF db = "error" \/ DeleteTag(registry, key[1], key[2]) = "DELETE 0"
              THEN /\ pc' = [pc EXCEPT ![d] = "done"]
                   /\ resp' = [resp EXCEPT ![d] = ServerError("PostgresError")]
                   /\ UNCHANGED <<registry, cidx, deleted>>
              ELSE /\ registry' = DeleteRow(registry, key[1], key[2])
                   /\ deleted' = [deleted EXCEPT ![d] = Append(@, key)]
                   /\ cidx' = [cidx EXCEPT ![d] = @ + 1]
                   /\ pc' = [pc EXCEPT ![d] = IF last THEN "done" ELSE "deleting"]
                   /\ resp' = [resp EXCEPT ![d] = IF last THEN SentResponse(sent[d]) ELSE @]
    /\ UNCHANGED <<now, envVars, provVars, loopHolder, body, rows, idx, sent,
                   bad_tokens, events, pushes, envResp, acctVars>>

CleanupDelete(d) ==
    /\ loopHolder = 0
    /\ pc[d] = "deleting"
    /\ \E db \in DbResults :
          IF db = "error"
          THEN /\ pc' = [pc EXCEPT ![d] = "done"]
               /\ resp' = [resp EXCEPT ![d] = ServerError("PostgresError")]
               /\ UNCHANGED <<registry, cidx, deleted>>
          ELSE LET key == bad_tokens[d][cidx[d]]
                   last == cidx[d] = Len(bad_tokens[d])
               IN  /\ registry' = DeleteRow(registry, key[1], key[2])
                   /\ deleted' = [deleted EXCEPT ![d] = Append(@, key)]
                   /\ cidx' = [cidx EXCEPT ![d] = @ + 1]
                   /\ pc' = [pc EXCEPT ![d] = IF last THEN "done" ELSE "deleting"]
                   /\ resp' = [resp EXCEPT ![d] = IF last THEN SentResponse(sent[d]) ELSE @]
    /\ UNCHANGED <<now, envVars, provVars, loopHolder, body, rows, idx, sent,
                   bad_tokens, events, pushes, envResp, acctVars>>

----------------------------------------------------------------------------
(* register_push / deregister_push / delete_account *)

InvalidToken == "<invalid>"
Subjects == Jids \cup {InvalidToken}

\* the check that every handler behind verify_token makes never refusing
JidMismatch_Never(body_jid, caller_jid) == FALSE

\* `if body.jid != caller_jid`
JidMismatch(body_jid, caller_jid) == body_jid # caller_jid

\* body.jid.split("@")[0]
UsernameOf(jid) == CHOOSE u \in Usernames : Jid(u) = jid

\* an entry of reqLog: a request that passed both checks and ran its statements
Logged(op, caller_jid, jid, device_id, push_token, password, code, at) ==
    [op |-> op, caller |-> caller_jid, jid |-> jid, device_id |-> device_id,
     push_token |-> push_token, password |-> password, code |-> code, at |-> at]

\* the password the account was registered with, and the passwords a
\* delete-account request for it may carry: that one and another
CurrentPassword(jid) == "pw:" \o jid
PasswordsTried(jid) == {CurrentPassword(jid), "guess"}

Register(caller_jid, jid, device_id, platform, push_token) ==
    /\ loopHolder = 0
    /\ now < MaxClock
    /\ now' = now + 1
    /\ IF caller_jid = InvalidToken
       THEN /\ envResp' = 401
            /\ UNCHANGED <<registry, reqLog>>
       ELSE IF JidMismatch(jid, caller_jid)
       THEN /\ envResp' = 403
            /\ UNCHANGED <<registry, reqLog>>
       ELSE \E db \in DbResults :
               IF db = "error"
               THEN /\ envResp' = 500
                    /\ UNCHANGED <<registry, reqLog>>
               ELSE /\ registry' = Upsert(registry, jid, device_id, platform,
                                          push_token, APP_ID, now + 1)
                    /\ envResp' = 200
                    /\ reqLog' = Append(reqLog, Logged("register", caller_jid, jid,
                                                       device_id, push_token, "", 200,
                                                       now + 1))
    /\ UNCHANGED <<envVars, provVars, loopHolder, pc, body, rows, idx, sent,
                   bad_tokens, cidx, resp, events, pushes, deleted, subscriber, users>>

Deregister(caller_jid, jid, device_id) ==
    /\ loopHolder = 0
    /\ now < MaxClock
    /\ now' = now + 1
    /\ IF caller_jid = InvalidToken
       THEN /\ envResp' = 401
            /\ UNCHANGED <<registry, reqLog>>
       ELSE IF JidMismatch(jid, caller_jid)
       THEN /\ envResp' = 403
            /\ UNCHANGED <<registry, reqLog>>
       ELSE \E db \in DbResults :
               IF db = "error"
               THEN /\ envResp' = 500
                    /\ UNCHANGED <<registry, reqLog>>
               ELSE LET code == IF DeleteTag(registry, jid, device_id) = "DELETE 0"
                                THEN 404 ELSE 200
                    IN  /\ registry' = DeleteRow(registry, jid, device_id)
                        /\ envResp' = code
                        /\ reqLog' = Append(reqLog, Logged("deregister", caller_jid, jid,
                                                           device_id, "", "", code,
                                                           now + 1))
    /\ UNCHANGED <<envVars, provVars, loopHolder, pc, body, rows, idx, sent,
                   bad_tokens, cidx, resp, events, pushes, deleted, subscriber, users>>

\* an account deletion that leaves the push registrations alone
DeleteByJid_NoCascade(table, jid) == table

\* DELETE FROM push_registrations WHERE jid = $1
DeleteByJid(table, jid) == {r \in table : r.jid # jid}

\* the three DELETEs run in one transaction: all of them, or on an error none;
\* body.password is not read
DeleteAccount(caller_jid, jid, password) ==
    /\ loopHolder = 0
    /\ now < MaxClock
    /\ now' = now + 1
    /\ IF caller_jid = InvalidToken
       THEN /\ envResp' = 401
            /\ UNCHANGED <<registry, subscriber, users, reqLog>>
       ELSE IF JidMismatch(jid, caller_jid)
       THEN /\ envResp' = 403
            /\ UNCHANGED <<registry, subscriber, users, reqLog>>
       ELSE \E db \in DbResults :
               IF db = "error"
               THEN /\ envResp' = 500
                    /\ UNCHANGED <<registry, subscriber, users, reqLog>>
               ELSE /\ registry' = DeleteByJid(registry, jid)
                    /\ subscriber' = subscriber \ {UsernameOf(jid)}
                    /\ users' = users \ {UsernameOf(jid)}
                    /\ envResp' = 200
                    /\ reqLog' = Append(reqLog, Logged("delete_account", caller_jid, jid,
                                                       0, "", password, 200,
                                                       now + 1))
    /\ UNCHANGED <<envVars, provVars, loopHolder, pc, body, rows, idx, sent,
                   bad_tokens, cidx, resp, events, pushes, deleted>>

----------------------------------------------------------------------------
(* Specification *)

Row(jid, device_uuid, platform, push_token) ==
    [jid |-> jid, device_uuid |-> device_uuid, platform |-> platform,
     push_token |-> push_token, app_id |-> APP_ID, registered_at |-> 0]

\* what the table may hold when the requests arrive: any devices of bob, and
\* possibly one of carol
InitRows ==
    {Row(Jid("bob"), dv, pf, "tokA") : dv \in Devices, pf \in Platforms}
        \cup {Row(Jid("carol"), 1, "ios", "tokA")}

InitRegistries == {t \in SUBSET InitRows : UniqueKeys(t)}

WellFormedBody ==
    [callee_username |-> "bob", caller_username |-> "alice",
     caller_display_name |-> "Alice", call_id |-> "c1@sig", call_type |-> "audio"]

\* the requests: every display name and call type, and the well-formed request
\* with one field left out
Bodies ==
    [callee_username : {"bob"}, caller_username : {"alice"},
     caller_display_name : {"", "Alice"}, call_id : {"c1@sig"},
     call_type : {"audio", "video", "fax"}]
        \cup {[WellFormedBody EXCEPT ![f] = "<missing>"] : f \in DOMAIN WellFormedBody}

InitCommon ==
    /\ apnsClient = FALSE
    /\ apnsBuilt = 0
    /\ fcmInitialized = FALSE
    /\ fcmApp = FALSE
    /\ fcmBuilt = 0
    /\ logged = [k \in LogKinds |-> 0]
    /\ loopHolder = 0
    /\ body = [d \in Dispatchers |-> NoBody]
    /\ rows = [d \in Dispatchers |-> <<>>]
    /\ idx = [d \in Dispatchers |-> 0]
    /\ sent = [d \in Dispatchers |-> 0]
    /\ bad_tokens = [d \in Dispatchers |-> <<>>]
    /\ cidx = [d \in Dispatchers |-> 0]
    /\ resp = [d \in Dispatchers |-> NoResp]
    /\ events = [d \in Dispatchers |-> <<>>]
    /\ pushes = [d \in Dispatchers |-> {}]
    /\ deleted = [d \in Dispatchers |-> <<>>]
    /\ envResp = 0
    /\ subscriber = Usernames
    /\ users = Usernames
    /\ reqLog = <<>>

\* one call-notify request, against any table and any provider configuration
Init ==
    /\ InitCommon
    /\ registry \in InitRegistries
    /\ now = 0
    /\ apnsEnv \in ApnsEnvStates
    /\ fcmEnv \in FcmEnvStates
    /\ pc = [d \in Dispatchers |-> IF d = 1 THEN "idle" ELSE "off"]

DispatchNext(B) ==
    \/ \E d \in Dispatchers, b \in B : Receive(d, b)
    \/ \E d \in Dispatchers : Fetch(d)
    \/ \E d \in Dispatchers : SendStart(d)
    \/ \E d \in Dispatchers : ApnsComplete(d)
    \/ \E d \in Dispatchers : FcmComplete(d)
    \/ \E d \in Dispatchers : CleanupAcquire(d)
    \/ \E d \in Dispatchers : CleanupDelete(d)

RegistryNext ==
    \/ \E c \in Subjects, j \in Jids, dv \in Devices, pf \in Platforms, t \in Tokens :
          Register(c, j, dv, pf, t)
    \/ \E c \in Subjects, j \in Jids, dv \in Devices : Deregister(c, j, dv)
    \/ \E c \in Subjects, j \in Jids : \E p \in PasswordsTried(j) : DeleteAccount(c, j, p)

Next == DispatchNext(Bodies)

Spec == Init /\ [][Next]_vars

\* Spec with the scheduling of the event loop and the database: a coroutine
\* that can run is run, and a statement sent to the database is answered. The
\* provider calls carry no timeout (apns.py:74, fcm.py:73), so nothing says that
\* ApnsComplete or FcmComplete ever happens.
Fairness ==
    \A d \in Dispatchers :
        /\ WF_vars(Fetch(d))
        /\ WF_vars(SendStart(d))
        /\ WF_vars(CleanupAcquire(d))
        /\ WF_vars(CleanupDelete(d))

SpecLive == Init /\ [][Next]_vars /\ Fairness

\* SpecLive with providers that answer every call
SpecAnswered ==
    SpecLive /\ \A d \in Dispatchers : WF_vars(ApnsComplete(d)) /\ WF_vars(FcmComplete(d))

\* one call-notify request with register / deregister requests arriving meanwhile
BodiesReg ==
    [callee_username : {"bob"}, caller_username : {"alice"},
     caller_display_name : {"Alice"}, call_id : {"c1@sig"}, call_type : {"audio"}]

\* bob's devices, the first an iPhone and the others Android, any of them
\* registered
InitRowsReg ==
    {Row(Jid("bob"), dv, IF dv = 1 THEN "ios" ELSE "android", "tokA") : dv \in Devices}

\* both providers configured, and the clock one tick before its bound: one
\* register / deregister / delete-account request arrives while the
\* call-notify request runs
InitReg ==
    /\ InitCommon
    /\ registry \in SUBSET InitRowsReg
    /\ now = MaxClock - 1
    /\ apnsEnv = "ok"
    /\ fcmEnv = "ok"
    /\ pc = [d \in Dispatchers |-> IF d = 1 THEN "idle" ELSE "off"]

NextReg == DispatchNext(BodiesReg) \/ RegistryNext

SpecReg == InitReg /\ [][NextReg]_vars

\* every device of bob and one of carol registered, both providers configured:
\* one call-notify request for bob and one register / deregister /
\* delete-account request, in either order or interleaved
InitAcct ==
    /\ InitCommon
    /\ registry = InitRowsReg \cup {Row(Jid("carol"), 1, "ios", "tokA")}
    /\ now = MaxClock - 1
    /\ apnsEnv = "ok"
    /\ fcmEnv = "ok"
    /\ pc = [d \in Dispatchers |-> IF d = 1 THEN "idle" ELSE "off"]

SpecAcct == InitAcct /\ [][NextReg]_vars

\* register / deregister / delete-account requests one after another, no
\* call-notify request
InitRegistry ==
    /\ InitCommon
    /\ registry \in SUBSET InitRowsReg
    /\ now = 0
    /\ apnsEnv = "ok"
    /\ fcmEnv = "ok"
    /\ pc = [d \in Dispatchers |-> "off"]

NextRegistry == RegistryNext

SpecRegistry == InitRegistry /\ [][NextRegistry]_vars

\* call-notify requests in flight together for one registered device, both
\* providers configured, the requests ranging over callers and display names
BodiesConc ==
    [callee_username : {"bob"}, caller_username : {"alice", "mallory"},
     caller_display_name : {"", "Alice"}, call_id : {"c1@sig"},
     call_type : {"audio"}]

InitConc ==
    /\ InitCommon
    /\ \E pf \in Platforms : registry = {Row(Jid("bob"), 1, pf, "tokA")}
    /\ now = 0
    /\ apnsEnv = "ok"
    /\ fcmEnv = "ok"
    /\ pc = [d \in Dispatchers |-> "idle"]

NextConc == DispatchNext(BodiesConc)

SpecConc == InitConc /\ [][NextConc]_vars

----------------------------------------------------------------------------
(* Vocabulary of the properties *)

Range(seq) == {seq[i] : i \in 1..Len(seq)}
Count(seq, x) == Cardinality({i \in 1..Len(seq) : seq[i] = x})

\* the rows of request d whose send has ended, and the key of row i
Handled(d) == 1..Len(events[d])
RowKey(d, i) == <<body[d].callee_username \o "@example.com", rows[d][i].device_uuid>>

\* the provider call of row i of request d failed in transport: aioapns raised
\* ConnectionError, or the FCM SDK raised an exception that is not about the token
TransportFailure(d, i) ==
    \/ rows[d][i].platform = "ios" /\ events[d][i] = "ConnectionError"
    \/ rows[d][i].platform = "android" /\ events[d][i] = "UnavailableError"

\* the provider stated that the token of row i of request d is invalid
TokenInvalid(d, i) ==
    \/ rows[d][i].platform = "ios" /\ events[d][i] \in ApnsBadTokenDescriptions
    \/ rows[d][i].platform = "android" /\ events[d][i] \in FcmBadTokenErrors

----------------------------------------------------------------------------
(* C1 *)

\* C1: a provider send that fails in transport (APNs ConnectionError, a non-token
\* FCM exception) is counted as neither delivered nor rejected, and no delete is
\* issued for its (recipient_id, device_id).
C1_TransportFailureNoCleanup ==
    \A d \in Dispatchers : \A i \in Handled(d) :
        TransportFailure(d, i) =>
            /\ RowKey(d, i) \notin Range(bad_tokens[d])
            /\ RowKey(d, i) \notin Range(deleted[d])

----------------------------------------------------------------------------
(* C2 *)

\* C2: a registration is rejected (queued for cleanup, deleted) only when the
\* provider's response states that its token is unregistered, expired or
\* malformed; a provider answer that is unsuccessful for another reason
\* (throttling, a server error, a bad topic) never leads to a delete.
C2_RejectedOnlyForInvalidToken ==
    \A d \in Dispatchers : \A i \in Handled(d) :
        (/\ ~TransportFailure(d, i)
         /\ RowKey(d, i) \in Range(bad_tokens[d]) \cup Range(deleted[d]))
            => TokenInvalid(d, i)

----------------------------------------------------------------------------
(* C3 *)

\* some row of the callee of request d is stored
CalleeHasRows(d) ==
    \E r \in registry : r.jid = body[d].callee_username \o "@example.com"

\* C3: a call-notify whose registry read finds no registration of the callee
\* ends there with {status: no_registrations, sent: 0}; it has made no provider
\* send and issued no delete, and makes none afterwards.
C3_NoRegistrations ==
    /\ [][\A d \in Dispatchers :
            (pc[d] = "fetch" /\ pc'[d] # "fetch" /\ ~CalleeHasRows(d)
                /\ resp'[d].error # "PostgresError")
                => /\ pc'[d] = "done"
                   /\ resp'[d].code = 200
                   /\ resp'[d].status = "no_registrations"
                   /\ resp'[d].sent = 0]_vars
    /\ [](\A d \in Dispatchers :
            resp[d].status = "no_registrations"
                => /\ pc[d] = "done"
                   /\ rows[d] = <<>>
                   /\ pushes[d] = {}
                   /\ events[d] = <<>>
                   /\ bad_tokens[d] = <<>>
                   /\ deleted[d] = <<>>)

C3_Witness ==
    /\ pc[1] = "done"
    /\ resp[1].status = "no_registrations"
    /\ registry # {}

----------------------------------------------------------------------------
(* C4 *)

\* C4: when a dispatch over n >= 1 registrations runs to completion, the sent
\* count it returns is the number of registrations whose send the provider
\* accepted (Delivered), whatever the other outcomes were.
C4_SentCountsDelivered ==
    \A d \in Dispatchers :
        (pc[d] = "done" /\ resp[d].status = "sent")
            => /\ Len(rows[d]) >= 1
               /\ Len(events[d]) = Len(rows[d])
               /\ resp[d].code = 200
               /\ resp[d].sent = Count(events[d], "accepted")

C4_Witness ==
    /\ pc[1] = "done"
    /\ resp[1].status = "sent"
    /\ resp[1].sent = 1
    /\ Len(rows[1]) = 2
    /\ \E i \in Handled(1) : TokenInvalid(1, i)

----------------------------------------------------------------------------
(* C5 *)

\* C5: for every registration whose token the provider reports invalid during a
\* dispatch, the dispatch issues exactly one delete for its key, and once the
\* dispatch has returned (no register or deregister request having arrived) the
\* record is gone. Stated for the dispatches that met no storage error.
C5_ExactlyOneDelete ==
    \A d \in Dispatchers :
        (pc[d] = "done" /\ resp[d].error # "PostgresError")
            => \A i \in Handled(d) :
                  TokenInvalid(d, i)
                      => /\ Count(deleted[d], RowKey(d, i)) = 1
                         /\ now = 0 => ~\E r \in registry : Key(r) = RowKey(d, i)

----------------------------------------------------------------------------
(* C6 *)

\* the push client of the platform is unconfigured in this process
Unconfigured(platform) ==
    IF platform = "ios" THEN apnsEnv # "ok" ELSE fcmEnv # "ok"

\* C6: a registration whose platform's push client is unconfigured is skipped:
\* nothing is handed to a provider for it, it is not counted in sent, it is not
\* queued for cleanup, no error leaves the handler because of it, no step of the
\* dispatch removes its record, and the record is there when the dispatch has
\* ended (no register or deregister request having arrived).
C6_UnconfiguredIsSkipped ==
    /\ [](\A d \in Dispatchers : \A i \in Handled(d) :
            Unconfigured(rows[d][i].platform)
                => /\ events[d][i] = "not_configured"
                   /\ \A p \in pushes[d] :
                         "android" \in DOMAIN p <=> rows[d][i].platform = "ios"
                   /\ RowKey(d, i) \notin Range(bad_tokens[d])
                   /\ RowKey(d, i) \notin Range(deleted[d])
                   /\ sent[d] <= Len(events[d]) - Count(events[d], "not_configured")
                   /\ resp[d].code = 500 /\ i = Len(events[d])
                         => resp[d].error = "PostgresError"
                   /\ pc[d] = "done" /\ now = 0
                         => \E r \in registry : Key(r) = RowKey(d, i))
    /\ [][\A d \in Dispatchers :
            cidx'[d] # cidx[d]
                => \A r \in registry \ registry' : \A i \in Handled(d) :
                      Key(r) = RowKey(d, i) => ~Unconfigured(rows[d][i].platform)]_vars

C6_Witness ==
    /\ pc[1] = "done"
    /\ resp[1].status = "sent"
    /\ resp[1].sent = 1
    /\ Len(rows[1]) = 2
    /\ \E i \in Handled(1) :
          /\ Unconfigured(rows[1][i].platform)
          /\ \E r \in registry : Key(r) = RowKey(1, i)

----------------------------------------------------------------------------
(* C7 *)

\* the application-level payload of a provider request
PayloadOf(p) == IF "message" \in DOMAIN p THEN p.message ELSE p.data

----------------------------------------------------------------------------
(* C8 *)

\* two requests agree on caller_display_name, call_id and call_type
SameCallFields(d1, d2) ==
    /\ body[d1].caller_display_name = body[d2].caller_display_name
    /\ body[d1].call_id = body[d2].call_id
    /\ body[d1].call_type = body[d2].call_type

\* two provider requests go to the same device through the same provider
SameDevice(p1, p2) ==
    /\ DOMAIN p1 = DOMAIN p2
    /\ IF "message" \in DOMAIN p1 THEN p1.device_token = p2.device_token
       ELSE p1.token = p2.token

\* C8 as claimed: two call-notify requests that agree on caller_display_name,
\* call_id and call_type produce identical payloads for the same device whatever
\* their caller_username, the empty display name included.
C8_PayloadIgnoresCallerUsername ==
    \A d1, d2 \in Dispatchers : \A p1 \in pushes[d1], p2 \in pushes[d2] :
        (SameCallFields(d1, d2) /\ SameDevice(p1, p2)) => p1 = p2

\* C8 as amended: the payloads are identical whenever the agreed
\* caller_display_name is not empty; with an empty or omitted display name the
\* payload's caller name is the request's caller_username.
C8_PayloadIgnoresCallerUsernameIfNamed ==
    /\ \A d1, d2 \in Dispatchers : \A p1 \in pushes[d1], p2 \in pushes[d2] :
          (/\ SameCallFields(d1, d2)
           /\ SameDevice(p1, p2)
           /\ body[d1].caller_display_name # "")
              => p1 = p2
    /\ \A d \in Dispatchers : \A p \in pushes[d] :
          PayloadOf(p).caller_name =
              IF body[d].caller_display_name = "" THEN body[d].caller_username
              ELSE body[d].caller_display_name

C8_Witness ==
    /\ SameCallFields(1, 2)
    /\ body[1].caller_display_name # ""
    /\ body[1].caller_username # body[2].caller_username
    /\ pushes[1] # {}
    /\ pushes[2] # {}

----------------------------------------------------------------------------
(* C9 *)

\* C9: the sends of one dispatch are concurrent: while the send to one
\* registration is pending and another registration of the dispatch has not been
\* sent to, the send to that other registration can start.
C9_SendsStartWhileOnePending ==
    \A d \in Dispatchers :
        (pc[d] \in {"apns_wait", "fcm_call"} /\ idx[d] < Len(rows[d]))
            => ENABLED SendStart(d)

----------------------------------------------------------------------------
(* C10 *)

\* C10: when the provider call for one registration fails, by returning a
\* failure or by raising, every other registration the dispatch read is still
\* attempted and aggregated, and the registrations found rejected are still
\* cleaned up. Stated for the dispatches that met no storage error.
C10_FailureIsolatedPerTask ==
    \A d \in Dispatchers :
        (pc[d] = "done" /\ rows[d] # <<>> /\ resp[d].error # "PostgresError")
            => /\ Len(events[d]) = Len(rows[d])
               /\ sent[d] = Count(events[d], "accepted")
               /\ Range(bad_tokens[d]) \subseteq Range(deleted[d])

----------------------------------------------------------------------------
(* C11 *)

\* C11: a call-notify request is answered outside 2xx only when the request
\* failed validation or the registry read failed; whatever a provider call does
\* (unconfigured, invalid token, transient failure, any exception raised) is
\* absorbed, and the request is answered 2xx with {status, sent}.
C11_NonSuccessOnlyForValidationOrRead ==
    \A d \in Dispatchers :
        (pc[d] = "done" /\ resp[d].code # 200)
            => \/ resp[d].error = "RequestValidationError"
               \/ resp[d].error = "PostgresError" /\ rows[d] = <<>>

----------------------------------------------------------------------------
(* C12 *)

\* C12: when every send of a dispatch has completed and a cleanup delete, or
\* acquiring the connection for it, fails with a storage error, the dispatch
\* still answers {status: sent, sent: n}, and every queued delete is attempted.
C12_CleanupFailureNotSurfaced ==
    \A d \in Dispatchers :
        (/\ pc[d] = "done"
         /\ rows[d] # <<>>
         /\ Len(events[d]) = Len(rows[d])
         /\ events[d][Len(events[d])] # "MaxAttemptsExceeded")
            => /\ resp[d].code = 200
               /\ resp[d].status = "sent"
               /\ resp[d].sent = Count(events[d], "accepted")
               /\ Len(deleted[d]) = Len(bad_tokens[d])

----------------------------------------------------------------------------
(* C13 *)

\* the key of the cleanup delete that request d is about to issue
NextCleanupKey(d) == bad_tokens[d][cidx[d]]

\* request d is about to issue a cleanup delete for a row that is no longer stored
CleanupOfRemovedRow(d) ==
    /\ pc[d] = "deleting"
    /\ ~\E r \in registry : Key(r) = NextCleanupKey(d)

\* C13: when a registration the dispatch found rejected has been removed before
\* its cleanup delete (by a deregistration, an account deletion or another
\* dispatch's cleanup that ran meanwhile), the delete can be issued, raises no
\* error for the missing row and changes nothing, and the dispatch goes on to
\* its normal {status: sent, sent: n} answer.
C13_CleanupOfRemovedRowIsNoOp ==
    /\ [](\A d \in Dispatchers :
            (CleanupOfRemovedRow(d) /\ loopHolder = 0)
                => ENABLED (/\ CleanupDelete(d)
                            /\ registry' = registry
                            /\ deleted'[d] = Append(deleted[d], NextCleanupKey(d))
                            /\ resp'[d].code # 500))
    /\ [][\A d \in Dispatchers :
            (CleanupOfRemovedRow(d) /\ deleted'[d] # deleted[d])
                => /\ registry' = registry
                   /\ IF cidx[d] = Len(bad_tokens[d])
                      THEN /\ pc'[d] = "done"
                           /\ resp'[d] = [code |-> 200, status |-> "sent",
                                          sent |-> Count(events[d], "accepted"),
                                          error |-> ""]
                      ELSE pc'[d] = "deleting" /\ resp'[d].code = 0]_vars

\* a dispatch has answered after deleting a key that a deregistration, arriving
\* while it ran, had removed with success
C13_Witness ==
    /\ pc[1] = "done"
    /\ resp[1].status = "sent"
    /\ \E i \in 1..Len(reqLog) :
          /\ reqLog[i].op = "deregister"
          /\ reqLog[i].code = 200
          /\ <<reqLog[i].jid, reqLog[i].device_id>> \in Range(deleted[1])

----------------------------------------------------------------------------
(* C14 *)

\* how many cleanup deletes request d has issued: those that went through, and
\* the one that met a storage error if the cleanup loop ended on one
DeletesIssued(d) ==
    IF Len(deleted[d]) = Len(bad_tokens[d]) THEN Len(deleted[d]) ELSE cidx[d]

\* C14: a dispatch issues no cleanup delete until the send for every
\* registration it read has completed, and its response is returned only after
\* every queued cleanup delete has been issued.
C14_SendsThenCleanupThenResponse ==
    \A d \in Dispatchers :
        /\ (cidx[d] > 0 \/ deleted[d] # <<>>)
              => /\ Len(events[d]) = Len(rows[d])
                 /\ pc[d] \notin {"loop", "apns_wait", "fcm_call"}
        /\ (pc[d] = "done" /\ rows[d] # <<>>)
              => DeletesIssued(d) = Len(bad_tokens[d])

\* the first half alone: cleanup never starts before the last send has ended
C14_NoDeleteBeforeLastSend ==
    \A d \in Dispatchers :
        (pc[d] \in {"cleanup", "deleting"} \/ cidx[d] > 0 \/ deleted[d] # <<>>)
            => /\ Len(events[d]) = Len(rows[d])
               /\ pc[d] \notin {"loop", "apns_wait", "fcm_call"}

----------------------------------------------------------------------------
(* C15 *)

\* request d went through every send and every queued cleanup delete
RanToCompletion(d) ==
    /\ Len(events[d]) = Len(rows[d])
    /\ \A i \in Handled(d) : events[d][i] # "MaxAttemptsExceeded"
    /\ Len(deleted[d]) = Len(bad_tokens[d])

\* C15: the status is 'sent' exactly when the read returned at least one
\* registration and the dispatch ran to completion, a sent count of 0 included;
\* it is 'no_registrations' exactly when the read returned zero rows.
C15_StatusValues ==
    \A d \in Dispatchers :
        /\ pc[d] # "done" => resp[d].status = ""
        /\ pc[d] = "done"
              => /\ resp[d].status = "sent" <=> (rows[d] # <<>> /\ RanToCompletion(d))
                 /\ resp[d].status = "no_registrations"
                       <=> /\ rows[d] = <<>>
                           /\ ~CalleeHasRows(d)
                           /\ resp[d].code = 200
                 /\ resp[d].status \in {"sent", "no_registrations"} <=> resp[d].code = 200

\* two registrations read, one skipped and one rejected: status sent, sent 0
C15_Witness ==
    /\ pc[1] = "done"
    /\ resp[1].status = "sent"
    /\ resp[1].sent = 0
    /\ Len(rows[1]) = 2
    /\ "not_configured" \in Range(events[1])
    /\ \E i \in Handled(1) : TokenInvalid(1, i)

----------------------------------------------------------------------------
(* C16 *)

\* the request that d received has a call_type outside audio / video, or lacks
\* callee_username, caller_username or call_id
Malformed(d) ==
    /\ pc[d] \notin {"idle", "off"}
    /\ \/ body[d].call_type \notin {"audio", "video", "<missing>"}
       \/ body[d].callee_username = "<missing>"
       \/ body[d].caller_username = "<missing>"
       \/ body[d].call_id = "<missing>"

\* C16: a call-notify request whose call_type is outside {audio, video} or that
\* lacks a required field is rejected with a validation failure before any
\* processing: the registry is not read, nothing is sent, nothing is deleted.
C16_MalformedRejectedFirst ==
    \A d \in Dispatchers :
        Malformed(d)
            => /\ pc[d] = "done"
               /\ resp[d].code = 422
               /\ resp[d].error = "RequestValidationError"
               /\ resp[d].status \notin {"sent", "no_registrations"}
               /\ rows[d] = <<>>
               /\ pushes[d] = {}
               /\ events[d] = <<>>
               /\ bad_tokens[d] = <<>>
               /\ deleted[d] = <<>>

\* a request without call_id was refused although the callee has registrations
C16_Witness ==
    /\ Malformed(1)
    /\ body[1].call_id = "<missing>"
    /\ resp[1].code = 422
    /\ CalleeHasRows(1)

----------------------------------------------------------------------------
(* C17 *)

\* C17: when the registry read of a call-notify fails with a storage error the
\* request is answered with a failure (never no_registrations, never sent),
\* nothing is sent and nothing is deleted; no_registrations is answered only
\* when the query returned zero rows.
C17_ReadFailureSurfaced ==
    /\ [][\A d \in Dispatchers :
            (pc[d] = "fetch" /\ pc'[d] # "fetch")
                => /\ resp'[d].status = "no_registrations" => ~CalleeHasRows(d)
                   /\ (CalleeHasRows(d) /\ rows'[d] = <<>>)
                         => /\ pc'[d] = "done"
                            /\ resp'[d].code = 500
                            /\ resp'[d].error = "PostgresError"
                            /\ resp'[d].status \notin {"no_registrations", "sent"}]_vars
    /\ [](\A d \in Dispatchers :
            (pc[d] = "done" /\ rows[d] = <<>>)
                => /\ pushes[d] = {}
                   /\ events[d] = <<>>
                   /\ bad_tokens[d] = <<>>
                   /\ deleted[d] = <<>>
                   /\ cidx[d] = 0
                   /\ resp[d].status # "sent")

\* the read failed for a callee who has registrations
C17_Witness ==
    /\ pc[1] = "done"
    /\ resp[1].code = 500
    /\ resp[1].error = "PostgresError"
    /\ rows[1] = <<>>
    /\ CalleeHasRows(1)

----------------------------------------------------------------------------
(* C18 *)

\* the stored records of a key
RecordsOf(table, jid, device_id) ==
    {r \in table : r.jid = jid /\ r.device_uuid = device_id}

\* the request this step answers is logged as a registration of (jid, device_id)
\* with push_token
RegistrationLogged(jid, device_id, push_token) ==
    /\ Len(reqLog') = Len(reqLog) + 1
    /\ reqLog'[Len(reqLog')].op = "register"
    /\ reqLog'[Len(reqLog')].jid = jid
    /\ reqLog'[Len(reqLog')].device_id = device_id
    /\ reqLog'[Len(reqLog')].push_token = push_token

\* C18: whatever register, deregister, cleanup and delete-account operations
\* have run, the registry holds at most one record per (recipient_id,
\* device_id); a registration for a key, stored already or not, is not refused,
\* and leaves exactly one record of the key, holding the push_token, platform
\* and app_id of that latest registration, the other records untouched.
C18_OneRecordPerKey ==
    /\ [](\A r, q \in registry :
            (r.jid = q.jid /\ r.device_uuid = q.device_uuid) => r = q)
    /\ [](\A j \in Jids, dv \in Devices, pf \in Platforms, t \in Tokens :
            (now < MaxClock /\ loopHolder = 0)
                => ENABLED (Register(j, j, dv, pf, t) /\ envResp' = 200))
    /\ [][\A j \in Jids, dv \in Devices, pf \in Platforms, t \in Tokens :
            (RegistrationLogged(j, dv, t) /\ Register(j, j, dv, pf, t) /\ envResp' # 500)
                => /\ envResp' = 200
                   /\ RecordsOf(registry', j, dv) =
                         {[jid |-> j, device_uuid |-> dv, platform |-> pf,
                           push_token |-> t, app_id |-> "com.example.veil",
                           registered_at |-> now']}
                   /\ registry' \ RecordsOf(registry', j, dv)
                         = registry \ RecordsOf(registry, j, dv)]_vars

\* one key registered twice, with tokA and then tokB, both answered 200: one
\* record of the key is stored, holding tokB
C18_Witness ==
    \E i, k \in 1..Len(reqLog) :
        /\ i < k
        /\ reqLog[i].op = "register" /\ reqLog[k].op = "register"
        /\ reqLog[i].jid = reqLog[k].jid /\ reqLog[i].device_id = reqLog[k].device_id
        /\ reqLog[i].push_token = "tokA" /\ reqLog[k].push_token = "tokB"
        /\ reqLog[i].code = 200 /\ reqLog[k].code = 200
        /\ \E r \in registry :
              /\ RecordsOf(registry, reqLog[k].jid, reqLog[k].device_id) = {r}
              /\ r.push_token = "tokB"
              /\ r.registered_at = reqLog[k].at

----------------------------------------------------------------------------
(* C19 *)

\* entries i and i + 1 of reqLog are deregistrations of one key
DeregisteredTwice(i) ==
    /\ i + 1 <= Len(reqLog)
    /\ reqLog[i].op = "deregister" /\ reqLog[i + 1].op = "deregister"
    /\ reqLog[i].jid = reqLog[i + 1].jid
    /\ reqLog[i].device_id = reqLog[i + 1].device_id

\* C19: deregistering (recipient_id, device_id) removes exactly that record and
\* reports success when it is stored; when it is not stored the request is
\* answered 404 and the registry is left as it was; so a second deregistration
\* right after a successful one is answered 404.
C19_DeregisterExactlyThatRecord ==
    /\ [][\A j \in Jids, dv \in Devices :
            (Deregister(j, j, dv) /\ envResp' # 500)
                => IF \E r \in registry : r.jid = j /\ r.device_uuid = dv
                   THEN /\ envResp' = 200
                        /\ registry' = {r \in registry : ~(r.jid = j /\ r.device_uuid = dv)}
                        /\ Cardinality(registry') = Cardinality(registry) - 1
                   ELSE /\ envResp' = 404
                        /\ registry' = registry]_vars
    /\ [](\A i \in 1..Len(reqLog) :
            (DeregisteredTwice(i) /\ reqLog[i].code = 200) => reqLog[i + 1].code = 404)

\* a key deregistered twice in a row, 200 and then 404, another record staying
C19_Witness ==
    /\ DeregisteredTwice(1)
    /\ reqLog[1].code = 200
    /\ reqLog[2].code = 404
    /\ envResp = 404
    /\ registry # {}

----------------------------------------------------------------------------
(* C20 *)

\* what a refused request must look like: 401 without a valid token, 403 with a
\* valid token of another subject, and nothing stored, removed or logged
Refused(c) ==
    /\ envResp' = IF c = "<invalid>" THEN 401 ELSE 403
    /\ registry' = registry
    /\ reqLog' = reqLog

\* C20: register and deregister require a valid bearer token whose subject is
\* body.jid: without a valid token the request is answered 401, with another
\* subject's token 403, and the registry is unchanged. So every registration
\* stored for J was written by a request authenticated as J, and a record of J
\* that a request removed was removed by a request authenticated as J. (First
\* conjunct: a step that is not such a refusal is no step of a register or
\* deregister request on j made with a token that is not j's.)
C20_OnlyTheOwnerWritesAndRemoves ==
    /\ [][\A c \in Subjects, j \in Jids :
            c # j => \/ Refused(c)
                     \/ \A dv \in Devices :
                           /\ \A pf \in Platforms, t \in Tokens :
                                 ~Register(c, j, dv, pf, t)
                           /\ ~Deregister(c, j, dv)]_vars
    /\ [](\A i \in 1..Len(reqLog) :
            reqLog[i].caller = reqLog[i].jid /\ reqLog[i].caller # "<invalid>")
    /\ [](\A r \in registry :
            r.registered_at > 0
                => \E i \in 1..Len(reqLog) :
                      /\ reqLog[i].op = "register"
                      /\ reqLog[i].caller = r.jid
                      /\ reqLog[i].device_id = r.device_uuid
                      /\ reqLog[i].push_token = r.push_token
                      /\ reqLog[i].at = r.registered_at)
    /\ [][\A r \in registry :
            (~\E q \in registry' : q.jid = r.jid /\ q.device_uuid = r.device_uuid)
                => \/ \E d \in Dispatchers : deleted'[d] # deleted[d]
                   \/ /\ Len(reqLog') = Len(reqLog) + 1
                      /\ reqLog'[Len(reqLog')].op \in {"deregister", "delete_account"}
                      /\ reqLog'[Len(reqLog')].caller = r.jid
                      /\ reqLog'[Len(reqLog')].jid = r.jid]_vars

\* bob registered a device, and a later request on bob's records made with
\* another subject's token was answered 403, the record staying as bob wrote it
C20_Witness ==
    /\ envResp = 403
    /\ Len(reqLog) = 1
    /\ reqLog[1].op = "register"
    /\ reqLog[1].caller = "bob@example.com"
    /\ now = 2
    /\ \E r \in registry :
          /\ r.jid = "bob@example.com"
          /\ r.device_uuid = reqLog[1].device_id
          /\ r.registered_at = 1

----------------------------------------------------------------------------
(* C21 *)

\* C21: each provider's client is built at most once in the life of the
\* process, however many sends are made and however the first uses of several
\* call-notify requests interleave; a request never finds a holder that is half
\* set: the APNs holder is set exactly when the one client was built, and the
\* FCM flag is never up without the app where the credential is good.
C21_InitializedAtMostOnce ==
    /\ apnsBuilt <= 1
    /\ fcmBuilt <= 1
    /\ apnsClient <=> apnsBuilt = 1
    /\ fcmApp <=> fcmBuilt = 1
    /\ fcmApp => fcmInitialized
    /\ (fcmInitialized /\ fcmEnv = "ok") => fcmApp
    /\ \A d \in Dispatchers :
          /\ pc[d] = "apns_wait" => apnsClient
          /\ pc[d] = "fcm_call" => fcmApp

\* every request is waiting for APNs on its first use of the client
C21_Witness ==
    /\ \A d \in Dispatchers : pc[d] = "apns_wait" /\ events[d] = <<>>
    /\ apnsBuilt = 1

----------------------------------------------------------------------------
(* C22 *)

\* C22: where a provider's configuration is absent or its credential cannot be
\* loaded, every send through it returns None (no exception, no rejection)
\* without a request being handed to the provider, and the misconfiguration is
\* warned about once in the life of the process, not once per send.
C22_SkippedAndWarnedOnce ==
    /\ \A d \in Dispatchers : \A i \in Handled(d) :
          Unconfigured(rows[d][i].platform)
              => /\ events[d][i] = "not_configured"
                 /\ RowKey(d, i) \notin Range(bad_tokens[d])
                 /\ \A p \in pushes[d] :
                       "message" \in DOMAIN p <=> rows[d][i].platform = "android"
    /\ logged["apns_warning"] <= 1
    /\ logged["fcm_warning"] <= 1

\* the half of C22 about the FCM adapter alone: one warning however many sends
C22_FcmWarnedOnce == logged["fcm_warning"] <= 1

----------------------------------------------------------------------------
(* C23 *)

\* C23: every provider call is bounded: a dispatch that has been received
\* returns a response in the end, also when the provider never answers the call
\* made for one of its registrations.
C23_EveryDispatchReturns ==
    \A d \in Dispatchers : (pc[d] = "fetch") ~> (pc[d] = "done")

----------------------------------------------------------------------------
(* C24 *)

\* request d is in flight and its next step is the handler's own: the registry
\* read, the start of a send, or a step of the cleanup
OwnStepNext(d) == pc[d] \in {"fetch", "loop", "cleanup", "deleting"}

\* that step of request d can be taken now
CanProgress(d) ==
    ENABLED (Fetch(d) \/ SendStart(d) \/ CleanupAcquire(d) \/ CleanupDelete(d))

\* C24: concurrent call-notify requests are handled independently: while the
\* provider send of one request is pending, on either platform, every other
\* request in flight can take its next step.
C24_RequestsProgressIndependently ==
    \A d1, d2 \in Dispatchers :
        (d1 # d2 /\ pc[d1] \in {"apns_wait", "fcm_call"} /\ OwnStepNext(d2))
            => CanProgress(d2)

\* the iOS half of C24: a pending APNs send holds no other request back
C24_ApnsSendHoldsNobodyBack ==
    \A d1, d2 \in Dispatchers :
        (d1 # d2 /\ pc[d1] = "apns_wait" /\ pc[d2] # "fcm_call" /\ OwnStepNext(d2))
            => (loopHolder # 0 \/ CanProgress(d2))

----------------------------------------------------------------------------
(* C25 *)

\* C25: the only change a dispatch makes to the registry is to remove records:
\* no step of a dispatch adds a record or changes the push_token, platform,
\* app_id or registered_at of one, so every record stored after a dispatch, no
\* registration request having come in, is a record that was stored before,
\* with the values it had.
C25_DispatchOnlyDeletes ==
    [][(reqLog' = reqLog) => registry' \subseteq registry]_vars

\* a dispatch has cleaned up one of two registrations it read and answered;
\* the other is still stored
C25_Witness ==
    /\ pc[1] = "done"
    /\ resp[1].status = "sent"
    /\ Len(rows[1]) = 2
    /\ Len(deleted[1]) = 1
    /\ \E r \in registry : r.jid = "bob@example.com" /\ <<r.jid, r.device_uuid>> \notin Range(deleted[1])

----------------------------------------------------------------------------
(* C26 *)

\* the account of jid was deleted with success and has registered no device since
AccountDeleted(jid) ==
    \E i \in 1..Len(reqLog) :
        /\ reqLog[i].op = "delete_account"
        /\ reqLog[i].jid = jid
        /\ reqLog[i].code = 200
        /\ \A k \in (i + 1)..Len(reqLog) :
              ~(reqLog[k].op = "register" /\ reqLog[k].jid = jid)

\* C26: a delete_account for J that succeeds removes every registration of J,
\* whatever the device, and changes no registration of another account; a
\* call-notify for J whose registry read comes after it answers
\* no_registrations; a delete_account made with a token whose subject is not
\* body.jid is answered 403 and deletes nothing.
C26_AccountDeletionCascades ==
    /\ [][\A j \in Jids : \A p \in {"pw:" \o j, "guess"} :
            (DeleteAccount(j, j, p) /\ envResp' = 200)
                => /\ registry' = {r \in registry : r.jid # j}
                   /\ ~\E r \in registry' : r.jid = j]_vars
    /\ [][\A c, j \in Jids :
            c # j => \/ /\ envResp' = 403
                        /\ UNCHANGED <<registry, subscriber, users, reqLog>>
                     \/ \A p \in {"pw:" \o j, "guess"} : ~DeleteAccount(c, j, p)]_vars
    /\ [](\A j \in Jids : AccountDeleted(j) => ~\E r \in registry : r.jid = j)
    /\ [][\A d \in Dispatchers :
            (/\ pc[d] = "fetch" /\ pc'[d] # "fetch"
             /\ AccountDeleted(body[d].callee_username \o "@example.com")
             /\ resp'[d].error # "PostgresError")
                => /\ resp'[d].code = 200
                   /\ resp'[d].status = "no_registrations"
                   /\ resp'[d].sent = 0]_vars

\* bob, who had devices registered, deleted his account; the call-notify for
\* bob that followed answered no_registrations; carol's registration is stored
C26_Witness ==
    /\ Len(reqLog) = 1
    /\ reqLog[1].op = "delete_account"
    /\ reqLog[1].jid = "bob@example.com"
    /\ reqLog[1].code = 200
    /\ pc[1] = "done"
    /\ resp[1].status = "no_registrations"
    /\ \E r \in registry : r.jid = "carol@example.com"

----------------------------------------------------------------------------
(* C27 *)

\* C27: delete_account removes the account's data only when the password in the
\* request is the account's current password: no request that carried another
\* password was answered 200 and ran the deletes.
C27_DeletionNeedsCurrentPassword ==
    \A i \in 1..Len(reqLog) :
        (reqLog[i].op = "delete_account" /\ reqLog[i].code = 200)
            => reqLog[i].password = "pw:" \o reqLog[i].jid

----------------------------------------------------------------------------
(* C28 *)

\* the provider call of request d that is pending goes to the client of the
\* platform of the row the loop is at
RoutedByPlatform(d) ==
    /\ pc[d] = "apns_wait" => rows[d][idx[d]].platform = "ios"
    /\ pc[d] = "fcm_call" => rows[d][idx[d]].platform = "android"

\* a step in which a send of request d completes: it is the send for the row the
\* loop is at, and the loop moves to the next row or the request ends
OneAttemptThenOn(d) ==
    events'[d] # events[d] =>
        /\ Len(events'[d]) = Len(events[d]) + 1
        /\ Len(events'[d]) = idx[d]
        /\ idx'[d] = idx[d] + 1 \/ pc'[d] = "done"

\* a step in which request d hands a new request to a provider: an APNs request
\* exactly for an ios row, an FCM message exactly for an android row, carrying
\* the token of the row the loop is at
NewPushMatchesRow(d) ==
    \A p \in pushes'[d] \ pushes[d] :
        /\ ("message" \in DOMAIN p) <=> (rows[d][idx[d]].platform = "ios")
        /\ ("data" \in DOMAIN p) <=> (rows[d][idx[d]].platform = "android")
        /\ "message" \in DOMAIN p => p.device_token = rows[d][idx[d]].push_token
        /\ "data" \in DOMAIN p => p.token = rows[d][idx[d]].push_token

\* the part of C28 about routing and about no second attempt: it holds
C28_RoutedAtMostOnce ==
    /\ [](\A d \in Dispatchers : RoutedByPlatform(d) /\ Len(events[d]) <= Len(rows[d]))
    /\ [][\A d \in Dispatchers : OneAttemptThenOn(d) /\ NewPushMatchesRow(d)]_vars

\* C28: in every dispatch each registration read goes to the APNs client exactly
\* when its platform is ios and to the FCM client exactly when it is android,
\* no registration is attempted twice, and once the dispatch has returned every
\* registration it read has had its one attempt.
C28_RoutedExactlyOnce ==
    /\ [](\A d \in Dispatchers : RoutedByPlatform(d) /\ Len(events[d]) <= Len(rows[d]))
    /\ [][\A d \in Dispatchers : OneAttemptThenOn(d) /\ NewPushMatchesRow(d)]_vars
    /\ [](\A d \in Dispatchers :
            (pc[d] = "done" /\ rows[d] # <<>>) => Len(events[d]) = Len(rows[d]))

----------------------------------------------------------------------------
(* C29 *)

\* the push token request d read for the device of key k, the token the
\* provider was given and rejected
TokenRead(d, k) ==
    {rows[d][i].push_token : i \in {n \in 1..Len(rows[d]) : rows[d][n].device_uuid = k[2]}}

\* C29: a cleanup delete of a dispatch removes a record only if the push token
\* stored in it is the token that dispatch read and the provider rejected; a
\* registration written with a new token after the read stays.
C29_CleanupKeepsFreshRegistration ==
    [][\A d \in Dispatchers :
          (pc[d] = "deleting" /\ Len(deleted'[d]) = Len(deleted[d]) + 1)
              => \A r \in registry \ registry' :
                    r.push_token \in TokenRead(d, NextCleanupKey(d))]_vars

----------------------------------------------------------------------------
(* C30 *)

\* the keys of the registrations request d read whose send the provider answered
\* by stating the token invalid
RejectedKeys(d) == {RowKey(d, i) : i \in {n \in Handled(d) : TokenInvalid(d, n)}}

\* the keys of the registrations request d read whose send returned False
FalseKeys(d) ==
    {RowKey(d, i) : i \in {n \in Handled(d) :
        events[d][n] \notin {"accepted", "not_configured", "MaxAttemptsExceeded"}}}

\* the part of C30 that holds: a dispatch deletes only keys of registrations of
\* the callee that it read and whose send returned False
C30_DeletesOnlyQueuedKeys ==
    /\ [](\A d \in Dispatchers : Range(deleted[d]) \subseteq FalseKeys(d))
    /\ [][(reqLog' = reqLog)
            => \A r \in registry \ registry' :
                  \E d \in Dispatchers : Key(r) \in FalseKeys(d)]_vars

\* C30: the records a dispatch deletes are registrations of the callee that it
\* read and whose send outcome was a rejection, never a registration of another
\* recipient, one that was delivered or skipped, or one it did not read; with
\* no other request, what a dispatch that has returned leaves is the registry
\* without exactly the rejected keys.
C30_DeletesExactlyTheRejected ==
    /\ [](\A d \in Dispatchers : Range(deleted[d]) \subseteq RejectedKeys(d))
    /\ [][(reqLog' = reqLog)
            => \A r \in registry \ registry' :
                  \E d \in Dispatchers : Key(r) \in RejectedKeys(d)]_vars
    /\ [](\A d \in Dispatchers :
            (pc[d] = "done" /\ now = 0)
                => \A k \in RejectedKeys(d) : ~\E r \in registry : Key(r) = k)

====
